---- MODULE Spec2Model ----
(***************************************************************************)
(* A model of cinema.py: the Seat and CinemaHall classes.                  *)
(*                                                                         *)
(* The state is the hall's private seat list; every public method of       *)
(* CinemaHall is one action.  Prices are Python numbers: the int the       *)
(* caller passed, or the binary64 float a discount multiplication returns, *)
(* computed bit for bit (round to nearest, ties to even).                  *)
(***************************************************************************)
EXTENDS Integers, Sequences, FiniteSets, TLC

(***************************************************************************)
(* Bounds of the model.                                                    *)
(***************************************************************************)
\* number of method calls made on the hall in one session
MaxCalls == 3

\* the arguments CinemaHall(rows, seats_per_row) is called with
RowsArgs == {0, 1, 2}
SeatsPerRowArgs == {0, 1, 2}

\* the (age, day_of_week, base_price) the callers of reserve_seat pass: every
\* age and day at the default base price, and a negative base price without
\* a discount and with both
Ages == {45, 65, 80}
Days == {2, 3}
BasePrices == {10, -3}
ReserveArgs ==
    (Ages \X Days \X {10}) \cup {<<45, 3, -3>>, <<80, 2, -3>>}

(***************************************************************************)
(* Python numbers.  An int is [t |-> "int", v |-> n].  A float is the      *)
(* binary64 value (-1)^sign * mant * 2^(exp - 52), with mant a 53-bit      *)
(* significand held as four 14-bit limbs, least significant first (zero    *)
(* has mant 0 and exp 0).                                                  *)
(***************************************************************************)
MantBits == 53
LimbBits == 14
LimbBase == 2^LimbBits
MantLimbs == 4

PyInt(n) == [t |-> "int", v |-> n]

BitAt(x, k) ==
    IF k < 0 \/ k >= Len(x) * LimbBits THEN 0
    ELSE (x[(k \div LimbBits) + 1] \div (2^(k % LimbBits))) % 2

RECURSIVE SumBits(_, _, _, _)
\* the number whose bit t is bit off + t of x, for t < n and off + t <= hi
SumBits(x, off, hi, n) ==
    IF n = 0 THEN 0
    ELSE SumBits(x, off, hi, n - 1)
         + (IF off + n - 1 > hi THEN 0 ELSE BitAt(x, off + n - 1) * 2^(n - 1))

\* bits lo..hi of x, as nl limbs (a left shift when lo is negative)
Slice(x, lo, hi, nl) ==
    [j \in 1..nl |-> SumBits(x, lo + (j - 1) * LimbBits, hi, LimbBits)]

RECURSIVE ColSum(_, _, _, _)
\* column k of the schoolbook product: the sum of a[i] * b[j], i + j = k + 1
ColSum(a, b, k, i) ==
    IF i > Len(a) THEN 0
    ELSE (IF k - i + 1 >= 1 /\ k - i + 1 <= Len(b) THEN a[i] * b[k - i + 1] ELSE 0)
         + ColSum(a, b, k, i + 1)

RECURSIVE Propagate(_, _, _)
Propagate(cols, k, carry) ==
    IF k > Len(cols) THEN <<>>
    ELSE <<(cols[k] + carry) % LimbBase>>
         \o Propagate(cols, k + 1, (cols[k] + carry) \div LimbBase)

BigMul(a, b) ==
    Propagate([k \in 1..(Len(a) + Len(b)) |-> ColSum(a, b, k, 1)], 1, 0)

BigInc(a) ==
    Propagate([k \in 1..Len(a) |-> IF k = 1 THEN a[k] + 1 ELSE a[k]], 1, 0)

RECURSIVE BigOfInt(_, _)
BigOfInt(n, nl) ==
    IF nl = 0 THEN <<>> ELSE <<n % LimbBase>> \o BigOfInt(n \div LimbBase, nl - 1)

RECURSIVE TopBit(_, _)
TopBit(x, k) ==
    IF k < 0 THEN -1 ELSE IF BitAt(x, k) = 1 THEN k ELSE TopBit(x, k - 1)

BitLength(x) == TopBit(x, Len(x) * LimbBits - 1) + 1

IsZero(x) == \A j \in 1..Len(x) : x[j] = 0

\* the float nearest to (-1)^sign * x * 2^sh, ties to the even significand
RoundNat(sign, x, sh) ==
    IF IsZero(x)
    THEN [t |-> "float", sign |-> sign, exp |-> 0, mant |-> BigOfInt(0, MantLimbs)]
    ELSE LET n    == BitLength(x)
             drop == n - MantBits
             m    == Slice(x, drop, n - 1, MantLimbs)
             rnd  == BitAt(x, drop - 1)
             stk  == \E k \in 0..(drop - 2) : BitAt(x, k) = 1
             up   == rnd = 1 /\ (stk \/ BitAt(m, 0) = 1)
             m1   == IF up THEN BigInc(m) ELSE m
             ovf  == BitAt(m1, MantBits) = 1
         IN  [t    |-> "float",
              sign |-> sign,
              exp  |-> sh + n - 1 + (IF ovf THEN 1 ELSE 0),
              mant |-> IF ovf THEN Slice(m1, 1, MantBits, MantLimbs) ELSE m1]

Abs(n) == IF n < 0 THEN -n ELSE n

\* float(n) for a small int n: exact
FloatOfInt(n) == RoundNat(IF n < 0 THEN 1 ELSE 0, BigOfInt(Abs(n), MantLimbs), 0)

ToFloat(x) == IF x.t = "int" THEN FloatOfInt(x.v) ELSE x

\* x * y on floats
FMul(x, y) ==
    RoundNat((x.sign + y.sign) % 2, BigMul(x.mant, y.mant),
             x.exp + y.exp - 2 * (MantBits - 1))

RECURSIVE DivSmall(_, _, _, _)
\* long division of the limbs x by a small divisor, top limb first
DivSmall(x, d, j, rem) ==
    IF j = 0 THEN <<>>
    ELSE DivSmall(x, d, j - 1, (rem * LimbBase + x[j]) % d)
         \o <<(rem * LimbBase + x[j]) \div d>>

RECURSIVE RemSmall(_, _, _, _)
RemSmall(x, d, j, rem) ==
    IF j = 0 THEN rem ELSE RemSmall(x, d, j - 1, (rem * LimbBase + x[j]) % d)

\* the float a decimal literal num/den denotes (0 < num, den small): the
\* quotient to 110 fractional bits, its remainder kept as a sticky bit
FloatOfRatio(num, den) ==
    LET scale == 8 * LimbBits - 2
        x     == Slice(BigOfInt(num, 1), -scale, scale + LimbBits, 9)
        q     == DivSmall(x, den, 9, 0)
        r     == RemSmall(x, den, 9, 0)
        qs    == [q EXCEPT ![1] = IF r # 0 /\ q[1] % 2 = 0 THEN q[1] + 1 ELSE q[1]]
    IN  RoundNat(0, qs, -scale)

\* Python's x * f for a number x and a float f
PyMul(x, f) == FMul(ToFloat(x), f)

\* Python's x == y on numbers (an int and a float compare by value)
PyEq(x, y) ==
    IF x.t = "int" /\ y.t = "int" THEN x.v = y.v ELSE ToFloat(x) = ToFloat(y)

\* Python's x < y on numbers
FloatLt(x, y) ==
    LET MagLt(a, b) ==
            IF IsZero(a.mant) \/ IsZero(b.mant) THEN IsZero(a.mant) /\ ~IsZero(b.mant)
            ELSE \/ a.exp < b.exp
                 \/ /\ a.exp = b.exp
                    /\ \E j \in 1..MantLimbs :
                          /\ a.mant[j] < b.mant[j]
                          /\ \A k \in (j + 1)..MantLimbs : a.mant[k] = b.mant[k]
    IN  IF IsZero(x.mant) /\ IsZero(y.mant) THEN FALSE
        ELSE IF x.sign # y.sign THEN x.sign = 1
        ELSE IF x.sign = 0 THEN MagLt(x, y) ELSE MagLt(y, x)

PyLt(x, y) ==
    IF x.t = "int" /\ y.t = "int" THEN x.v < y.v ELSE FloatLt(ToFloat(x), ToFloat(y))

(***************************************************************************)
(* The program state.                                                      *)
(***************************************************************************)
VARIABLES
    ctor,    \* the arguments CinemaHall(rows, seats_per_row) was called with
    built,   \* TRUE when that call returned a hall, FALSE when it raised
    seats,   \* CinemaHall.__seats: the list of Seat objects
    last,    \* the last call made and how it ended
    calls    \* the number of method calls made on the hall

vars == <<ctor, built, seats, last, calls>>

\* the messages of the ValueErrors the code raises
BadSeatNumber == "The seat number must be a positive integer."
BadSeatRow == "The seat row must be a positive integer."
BadSeatsPerRow == "The number of seats in each row must be a positive integer."
BadRows == "The total number of rows must be a positive integer."
AlreadyReserved == "The seat is already reserved."
NotReserved == "The seat is not reserved."
NotFound == "The seat does not exist."
DuplicateSeat == "The seat is already registered in the hall."
RowOutOfRange == "The row number is greater than the total number of rows in the hall."
NonSequentialSeat == "The seat number is not the next in the row."
Ok == "ok"

InvalidArgument == {BadSeatNumber, BadSeatRow, BadSeatsPerRow, BadRows}

(***************************************************************************)
(* class Seat                                                              *)
(***************************************************************************)
\* the tests written with < instead of <=: 0 passes
SeatCheckFromZero(number, row) ==
    IF number < 0 THEN BadSeatNumber
    ELSE IF row < 0 THEN BadSeatRow
    ELSE Ok

\* the error Seat(number, row) raises, or Ok
SeatCheck(number, row) ==
    IF number <= 0 THEN BadSeatNumber
    ELSE IF row <= 0 THEN BadSeatRow
    ELSE Ok

\* a seat constructed with the default base price as its price
SeatAtBasePrice(number, row) ==
    [number |-> number, row |-> row, reserved |-> FALSE, price |-> PyInt(10)]

\* the object Seat(number, row) constructs
Seat(number, row) ==
    [number |-> number, row |-> row, reserved |-> FALSE, price |-> PyInt(0)]

(***************************************************************************)
(* class CinemaHall                                                        *)
(***************************************************************************)
\* the error CinemaHall(rows, seats_per_row) raises, or Ok
HallCheck(rows, seats_per_row) ==
    IF seats_per_row <= 0 THEN BadSeatsPerRow
    ELSE IF rows <= 0 THEN BadRows
    ELSE Ok

\* a loop bound one short: range(1, seats_per_row)
RECURSIVE RowSeatsShort(_, _, _)
RowSeatsShort(row, number, seats_per_row) ==
    IF number >= seats_per_row THEN <<>>
    ELSE <<Seat(number, row)>> \o RowSeatsShort(row, number + 1, seats_per_row)

RECURSIVE RowSeats(_, _, _)
\* the inner loop: the seats number..seats_per_row of one row, in order
RowSeats(row, number, seats_per_row) ==
    IF number > seats_per_row THEN <<>>
    ELSE <<Seat(number, row)>> \o RowSeats(row, number + 1, seats_per_row)

RECURSIVE HallSeats(_, _, _)
\* the outer loop: the rows row..rows, in order
HallSeats(row, rows, seats_per_row) ==
    IF row > rows THEN <<>>
    ELSE RowSeats(row, 1, seats_per_row) \o HallSeats(row + 1, rows, seats_per_row)

CinemaHall(rows, seats_per_row) ==
    /\ calls = 0
    /\ ctor = [rows |-> rows, seats_per_row |-> seats_per_row]
    /\ IF HallCheck(rows, seats_per_row) = Ok
       THEN /\ built = TRUE
            /\ seats = HallSeats(1, rows, seats_per_row)
       ELSE /\ built = FALSE
            /\ seats = <<>>
    /\ last = [op |-> "CinemaHall", status |-> HallCheck(rows, seats_per_row)]

Init == \E rows \in RowsArgs, seats_per_row \in SeatsPerRowArgs :
            CinemaHall(rows, seats_per_row)

get_rows(ss) == Cardinality({ss[i].row : i \in 1..Len(ss)})

get_seats_per_row(ss) == Cardinality({ss[i].number : i \in 1..Len(ss)})

\* a scan that compares the seat number only
ScanNumberOnly(ss, number, row, i) ==
    IF \E j \in i..Len(ss) : ss[j].number = number
    THEN CHOOSE j \in i..Len(ss) :
            ss[j].number = number /\ \A k \in i..(j - 1) : ss[k].number # number
    ELSE 0

RECURSIVE Scan(_, _, _, _)
\* the linear scan of search_seat from index i: the index of the first seat
\* with this number and row, 0 for None
Scan(ss, number, row, i) ==
    IF i > Len(ss) THEN 0
    ELSE IF ss[i].number = number /\ ss[i].row = row THEN i
    ELSE Scan(ss, number, row, i + 1)

search_seat(ss, number, row) == Scan(ss, number, row, 1)

WednesdayFactor == FloatOfRatio(8, 10)
SeniorFactor == FloatOfRatio(7, 10)

\* the senior discount as an elif of the Wednesday one: never both
ComputePriceOneDiscount(age, day_of_week, base_price) ==
    IF day_of_week = 2 THEN PyMul(PyInt(base_price), WednesdayFactor)
    ELSE IF age > 65 THEN PyMul(PyInt(base_price), SeniorFactor)
    ELSE PyInt(base_price)

\* the senior discount from age 65 on: age >= 65
ComputePriceFrom65(age, day_of_week, base_price) ==
    LET p0 == PyInt(base_price)
        p1 == IF day_of_week = 2 THEN PyMul(p0, WednesdayFactor) ELSE p0
    IN  IF age >= 65 THEN PyMul(p1, SeniorFactor) ELSE p1

\* the price reserve_seat computes
ComputePrice(age, day_of_week, base_price) ==
    LET p0 == PyInt(base_price)
        p1 == IF day_of_week = 2 THEN PyMul(p0, WednesdayFactor) ELSE p0
    IN  IF age > 65 THEN PyMul(p1, SeniorFactor) ELSE p1

\* ComputePrice on the arguments the callers pass, evaluated once
PriceTable ==
    {<<a, ComputePrice(a[1], a[2], a[3])>> : a \in ReserveArgs}

ReservePrice(age, day_of_week, base_price) ==
    (CHOOSE p \in PriceTable : p[1] = <<age, day_of_week, base_price>>)[2]

Returns(op, status) ==
    /\ last' = [op |-> op, status |-> status]
    /\ calls' = calls + 1
    /\ UNCHANGED <<ctor, built>>

Called == built /\ calls < MaxCalls

\* reserve_seat storing the price before it looks at the reserved flag
reserve_seat_price_first(number, row, age, day_of_week, base_price) ==
    /\ Called
    /\ LET i == search_seat(seats, number, row)
       IN  IF i # 0
           THEN /\ seats' = [seats EXCEPT
                               ![i].price = ReservePrice(age, day_of_week, base_price),
                               ![i].reserved = TRUE]
                /\ Returns("reserve_seat",
                           IF seats[i].reserved THEN AlreadyReserved ELSE Ok)
           ELSE /\ seats' = seats
                /\ Returns("reserve_seat", NotFound)

\* reserve_seat without the is_reserved test
reserve_seat_unchecked(number, row, age, day_of_week, base_price) ==
    /\ Called
    /\ LET i == search_seat(seats, number, row)
       IN  IF i # 0
           THEN /\ seats' = [seats EXCEPT
                               ![i].price = ReservePrice(age, day_of_week, base_price),
                               ![i].reserved = TRUE]
                /\ Returns("reserve_seat", Ok)
           ELSE /\ seats' = seats
                /\ Returns("reserve_seat", NotFound)

\* reserve_seat without set_reserved(True)
reserve_seat_no_flag(number, row, age, day_of_week, base_price) ==
    /\ Called
    /\ LET i == search_seat(seats, number, row)
       IN  IF i # 0
           THEN IF ~seats[i].reserved
                THEN /\ seats' = [seats EXCEPT
                                    ![i].price = ReservePrice(age, day_of_week, base_price)]
                     /\ Returns("reserve_seat", Ok)
                ELSE /\ seats' = seats
                     /\ Returns("reserve_seat", AlreadyReserved)
           ELSE /\ seats' = seats
                /\ Returns("reserve_seat", NotFound)

reserve_seat(number, row, age, day_of_week, base_price) ==
    /\ Called
    /\ LET i == search_seat(seats, number, row)
       IN  IF i # 0
           THEN IF ~seats[i].reserved
                THEN /\ seats' = [seats EXCEPT
                                    ![i].price = ReservePrice(age, day_of_week, base_price),
                                    ![i].reserved = TRUE]
                     /\ Returns("reserve_seat", Ok)
                ELSE /\ seats' = seats
                     /\ Returns("reserve_seat", AlreadyReserved)
           ELSE /\ seats' = seats
                /\ Returns("reserve_seat", NotFound)

\* cancel_reservation without set_price(0)
cancel_reservation_keeps_price(number, row) ==
    /\ Called
    /\ LET i == search_seat(seats, number, row)
       IN  IF i # 0
           THEN IF seats[i].reserved
                THEN /\ seats' = [seats EXCEPT ![i].reserved = FALSE]
                     /\ Returns("cancel_reservation", Ok)
                ELSE /\ seats' = seats
                     /\ Returns("cancel_reservation", NotReserved)
           ELSE /\ seats' = seats
                /\ Returns("cancel_reservation", NotFound)

\* cancel_reservation returning normally for a seat that is not reserved
cancel_reservation_silent(number, row) ==
    /\ Called
    /\ LET i == search_seat(seats, number, row)
       IN  IF i # 0
           THEN /\ seats' = [seats EXCEPT ![i].reserved = FALSE,
                                          ![i].price = PyInt(0)]
                /\ Returns("cancel_reservation", Ok)
           ELSE /\ seats' = seats
                /\ Returns("cancel_reservation", NotFound)

cancel_reservation(number, row) ==
    /\ Called
    /\ LET i == search_seat(seats, number, row)
       IN  IF i # 0
           THEN IF seats[i].reserved
                THEN /\ seats' = [seats EXCEPT ![i].reserved = FALSE,
                                               ![i].price = PyInt(0)]
                     /\ Returns("cancel_reservation", Ok)
                ELSE /\ seats' = seats
                     /\ Returns("cancel_reservation", NotReserved)
           ELSE /\ seats' = seats
                /\ Returns("cancel_reservation", NotFound)

\* add_seat without its duplicate check
AddSeatCheckNoDuplicate(ss, seat) ==
    IF ss # <<>> /\ seat.row > ss[Len(ss)].row THEN RowOutOfRange
    ELSE IF ss # <<>> /\ seat.number # ss[Len(ss)].number + 1 THEN NonSequentialSeat
    ELSE Ok

\* add_seat without the test of the seat's row against the last row
AddSeatCheckNoRowRange(ss, seat) ==
    IF \E i \in 1..Len(ss) : ss[i].number = seat.number /\ ss[i].row = seat.row
    THEN DuplicateSeat
    ELSE IF ss # <<>> /\ seat.number # ss[Len(ss)].number + 1 THEN NonSequentialSeat
    ELSE Ok

\* the duplicate check made after the row and the next-number check
AddSeatCheckDuplicateLast(ss, seat) ==
    IF ss # <<>> /\ seat.row > ss[Len(ss)].row THEN RowOutOfRange
    ELSE IF ss # <<>> /\ seat.number # ss[Len(ss)].number + 1 THEN NonSequentialSeat
    ELSE IF \E i \in 1..Len(ss) : ss[i].number = seat.number /\ ss[i].row = seat.row
    THEN DuplicateSeat
    ELSE Ok

\* the last seat of ss in this row, or the last seat of ss if the row is empty
LastInRow(ss, row) ==
    IF \E i \in 1..Len(ss) : ss[i].row = row
    THEN ss[CHOOSE i \in 1..Len(ss) :
                ss[i].row = row /\ \A j \in (i + 1)..Len(ss) : ss[j].row # row]
    ELSE ss[Len(ss)]

\* the next-number check made against the last seat of the seat's own row
AddSeatCheckPerRow(ss, seat) ==
    IF \E i \in 1..Len(ss) : ss[i].number = seat.number /\ ss[i].row = seat.row
    THEN DuplicateSeat
    ELSE IF ss # <<>> /\ seat.row > ss[Len(ss)].row THEN RowOutOfRange
    ELSE IF ss # <<>> /\ seat.number # LastInRow(ss, seat.row).number + 1
    THEN NonSequentialSeat
    ELSE Ok

\* the checks of add_seat: the error it raises for this seat, or Ok
AddSeatCheck(ss, seat) ==
    IF \E i \in 1..Len(ss) : ss[i].number = seat.number /\ ss[i].row = seat.row
    THEN DuplicateSeat
    ELSE IF ss # <<>> /\ seat.row > ss[Len(ss)].row THEN RowOutOfRange
    ELSE IF ss # <<>> /\ seat.number # ss[Len(ss)].number + 1 THEN NonSequentialSeat
    ELSE Ok

\* the new seat appended instead of inserted in order
InsertPositionAppend(ss, seat, i) == Len(ss) - i + 1

RECURSIVE InsertPosition(_, _, _)
\* the position loop of add_seat: the number of seats passed before the
\* first one that sorts after the new seat
InsertPosition(ss, seat, i) ==
    IF i > Len(ss) THEN 0
    ELSE IF \/ seat.row < ss[i].row
            \/ seat.row = ss[i].row /\ seat.number < ss[i].number
    THEN 0
    ELSE 1 + InsertPosition(ss, seat, i + 1)

\* the seat assigned over the one at position: seats[position] = seat
InsertOverwrite(ss, position, seat) ==
    SubSeq(ss, 1, position) \o <<seat>> \o SubSeq(ss, position + 2, Len(ss))

\* list.insert(position, seat)
Insert(ss, position, seat) ==
    SubSeq(ss, 1, position) \o <<seat>> \o SubSeq(ss, position + 1, Len(ss))

add_seat(seat) ==
    /\ Called
    /\ IF AddSeatCheck(seats, seat) = Ok
       THEN seats' = Insert(seats, InsertPosition(seats, seat, 1), seat)
       ELSE seats' = seats
    /\ Returns("add_seat", AddSeatCheck(seats, seat))

\* Seat(number, row) raising: add_seat is never entered
SeatRejected(number, row) ==
    /\ Called
    /\ SeatCheck(number, row) # Ok
    /\ seats' = seats
    /\ Returns("Seat", SeatCheck(number, row))

\* the lines show_seats joins: number, row, status and price of every seat
ShowSeatsLines(ss, day_of_week, base_price) ==
    LET base == IF day_of_week = 2 THEN PyMul(PyInt(base_price), WednesdayFactor)
                ELSE PyInt(base_price)
    IN  [i \in 1..Len(ss) |->
            [number |-> ss[i].number,
             row    |-> ss[i].row,
             status |-> IF ss[i].reserved THEN "Reserved" ELSE "Available",
             price  |-> IF ss[i].reserved THEN ss[i].price ELSE base]]

\* show_seats storing the price it displays on the seats that are available
show_seats_stores_price(day_of_week, base_price) ==
    /\ Called
    /\ seats' = [i \in 1..Len(seats) |->
                    IF seats[i].reserved THEN seats[i]
                    ELSE [seats[i] EXCEPT !.price = PyInt(base_price)]]
    /\ Returns("show_seats", Ok)

show_seats(day_of_week, base_price) ==
    /\ Called
    /\ seats' = seats
    /\ Returns("show_seats", Ok)

search_seat_call(number, row) ==
    /\ Called
    /\ seats' = seats
    /\ Returns("search_seat", IF search_seat(seats, number, row) # 0 THEN "found" ELSE "None")

get_rows_call ==
    /\ Called
    /\ seats' = seats
    /\ Returns("get_rows", Ok)

get_seats_per_row_call ==
    /\ Called
    /\ seats' = seats
    /\ Returns("get_seats_per_row", Ok)

MaxOf(S) == IF S = {} THEN 0 ELSE LET x == CHOOSE y \in S : \A z \in S : z <= y IN x

\* the seats callers ask for: every seat of the hall and one that is absent
Targets ==
    {<<seats[i].number, seats[i].row>> : i \in 1..Len(seats)}
        \cup {<<MaxOf({seats[i].number : i \in 1..Len(seats)}) + 1, 1>>}

\* the numbers and rows Seat(number, row) is called with: those of the hall,
\* one past them, and 0
NumberArgs == 0..(MaxOf({seats[i].number : i \in 1..Len(seats)}) + 1)
RowArgs == 0..(MaxOf({seats[i].row : i \in 1..Len(seats)}) + 1)

Next ==
    \/ \E t \in Targets, a \in ReserveArgs : reserve_seat(t[1], t[2], a[1], a[2], a[3])
    \/ \E t \in Targets : cancel_reservation(t[1], t[2])
    \/ \E number \in NumberArgs, row \in RowArgs :
            SeatCheck(number, row) = Ok /\ add_seat(Seat(number, row))
    \/ \E number \in NumberArgs, row \in RowArgs : SeatRejected(number, row)
    \/ \E day_of_week \in Days, base_price \in BasePrices : show_seats(day_of_week, base_price)
    \/ \E t \in Targets : search_seat_call(t[1], t[2])
    \/ get_rows_call
    \/ get_seats_per_row_call

Spec == Init /\ [][Next]_vars

(***************************************************************************)
(* Properties.                                                             *)
(***************************************************************************)
\* what the properties say independently of the code's own helpers
Present(ss, number, row) ==
    \E i \in 1..Len(ss) : ss[i].number = number /\ ss[i].row = row

Before(a, b) == a.row < b.row \/ (a.row = b.row /\ a.number < b.number)

Errors ==
    InvalidArgument \cup {AlreadyReserved, NotReserved, NotFound, DuplicateSeat,
                          RowOutOfRange, NonSequentialSeat}

\* C1: in every reachable state the seat sequence is sorted ascending by
\* (row, number)
C1_SeatsSorted ==
    \A i \in 1..(Len(seats) - 1) :
        Before(seats[i], seats[i + 1]) \/ (seats[i].row = seats[i + 1].row
                                           /\ seats[i].number = seats[i + 1].number)

\* an added seat sits in the middle of the sequence, after calls that failed
\* and calls that succeeded
C1_Witness ==
    /\ last = [op |-> "add_seat", status |-> Ok]
    /\ \E i \in 1..(Len(seats) - 1) :
          seats[i].number > ctor.seats_per_row /\ seats[i].row < seats[i + 1].row

\* C2: in every reachable state no two seats of the hall share the same
\* (number, row) pair
C2_NoDuplicateSeat ==
    \A i, j \in 1..Len(seats) :
        (seats[i].number = seats[j].number /\ seats[i].row = seats[j].row) => i = j

\* add_seat has just refused a seat that the grown hall already holds
C2_Witness ==
    /\ last = [op |-> "add_seat", status |-> DuplicateSeat]
    /\ Len(seats) > ctor.rows * ctor.seats_per_row

\* C3: a reserve_seat, cancel_reservation or add_seat call that fails with an
\* error leaves the seat sequence, and every seat's reserved flag and price,
\* as they were before the call
C3_FailureChangesNothing ==
    [][(last'.status \in Errors) => (seats' = seats)]_vars

\* a call failed on a hall that holds a reservation and an added seat
C3_Witness ==
    /\ last.op \in {"reserve_seat", "cancel_reservation", "add_seat"}
    /\ last.status \in Errors
    /\ \E i \in 1..Len(seats) : seats[i].reserved
    /\ Len(seats) > ctor.rows * ctor.seats_per_row

\* C4: for rows > 0 and seats_per_row > 0 the new hall is built and holds
\* exactly rows * seats_per_row seats, one for each (number, row) with
\* 1 <= number <= seats_per_row and 1 <= row <= rows, all unreserved, price 0
C4_NewHall ==
    (calls = 0 /\ ctor.rows > 0 /\ ctor.seats_per_row > 0) =>
        /\ built
        /\ Len(seats) = ctor.rows * ctor.seats_per_row
        /\ \A number \in 1..ctor.seats_per_row, row \in 1..ctor.rows :
              Present(seats, number, row)
        /\ \A i \in 1..Len(seats) :
              /\ seats[i].number \in 1..ctor.seats_per_row
              /\ seats[i].row \in 1..ctor.rows
              /\ ~seats[i].reserved
              /\ PyEq(seats[i].price, PyInt(0))

\* the new hall with two rows of two seats
C4_Witness ==
    /\ calls = 0
    /\ built
    /\ ctor = [rows |-> 2, seats_per_row |-> 2]
    /\ Len(seats) = 4

\* C5: reserve_seat on a seat that is already reserved fails with "The seat
\* is already reserved." and leaves that seat's reserved flag and price
\* unchanged, whatever age, day_of_week and base_price the call passes
C5_ReserveReserved ==
    [][last'.op = "reserve_seat" =>
        \A i \in 1..Len(seats) :
          seats[i].reserved =>
            \A a \in ReserveArgs :
              reserve_seat(seats[i].number, seats[i].row, a[1], a[2], a[3]) =>
                /\ last'.status = AlreadyReserved
                /\ seats'[i].reserved = seats[i].reserved
                /\ seats'[i].price = seats[i].price]_vars

\* a second reserve_seat was refused and the seat keeps a discounted price
C5_Witness ==
    /\ last = [op |-> "reserve_seat", status |-> AlreadyReserved]
    /\ \E i \in 1..Len(seats) :
          seats[i].reserved /\ PyLt(seats[i].price, PyInt(10))
                            /\ PyLt(PyInt(0), seats[i].price)

\* the floats of the decimal literals 0.8, 0.7, 0.56 and 5.6
Lit08 == FloatOfRatio(8, 10)
Lit07 == FloatOfRatio(7, 10)
Lit056 == FloatOfRatio(56, 100)
Lit5p6 == FloatOfRatio(56, 10)

\* the price the discount rules give: base_price, times 0.8 on a Wednesday,
\* times 0.7 for an age above 65, the factors applied in this order
RulePrice(age, day_of_week, base_price) ==
    CASE day_of_week = 2 /\ age > 65 ->
            FMul(FMul(FloatOfInt(base_price), Lit08), Lit07)
      [] day_of_week = 2 /\ ~(age > 65) -> FMul(FloatOfInt(base_price), Lit08)
      [] day_of_week # 2 /\ age > 65 -> FMul(FloatOfInt(base_price), Lit07)
      [] OTHER -> PyInt(base_price)

RulePrices == {<<a, RulePrice(a[1], a[2], a[3])>> : a \in ReserveArgs}
RulePriceOf(a) == (CHOOSE p \in RulePrices : p[1] = a)[2]

\* 0.56 * base_price, as Python evaluates it
FlatPrices == {<<b, FMul(FloatOfInt(b), Lit056)>> : b \in BasePrices}
FlatPriceOf(b) == (CHOOSE p \in FlatPrices : p[1] = b)[2]

\* what a successful reserve_seat(.., a) of the unreserved seat i stores
C6_Stored(i, a) ==
    /\ last'.status = Ok
    /\ seats'[i].reserved
    /\ seats'[i].price = RulePriceOf(a)
    /\ (a[3] = 10 /\ a[1] = 80 /\ a[2] # 2) =>
          PyEq(seats'[i].price, PyInt(7)) /\ PyLt(seats'[i].price, PyInt(10))
    /\ (a[3] = 10 /\ a[1] = 45 /\ a[2] = 2) =>
          PyEq(seats'[i].price, PyInt(8)) /\ PyLt(seats'[i].price, PyInt(10))

\* C6 as stated: reserve_seat of an unreserved seat sets reserved and stores
\* base_price, times 0.8 when day_of_week = 2, times 0.7 when age > 65, and
\* 0.56 * base_price when both hold; 7 and 8 for base_price 10
C6_AsStated ==
    [][last'.op = "reserve_seat" =>
        \A i \in 1..Len(seats) :
          ~seats[i].reserved =>
            \A a \in ReserveArgs :
              reserve_seat(seats[i].number, seats[i].row, a[1], a[2], a[3]) =>
                /\ C6_Stored(i, a)
                /\ (a[2] = 2 /\ a[1] > 65) =>
                      PyEq(seats'[i].price, FlatPriceOf(a[3]))]_vars

\* C6 (amended): reserve_seat of an unreserved seat sets reserved and stores
\* base_price, times 0.8 when day_of_week = 2, then times 0.7 when age > 65,
\* each product rounded to a float; for base_price 10 that is 7 for age 80
\* on another day, 8 for age 45 on a Wednesday and 5.6 with both discounts
C6_DiscountedPrice ==
    [][last'.op = "reserve_seat" =>
        \A i \in 1..Len(seats) :
          ~seats[i].reserved =>
            \A a \in ReserveArgs :
              reserve_seat(seats[i].number, seats[i].row, a[1], a[2], a[3]) =>
                /\ C6_Stored(i, a)
                /\ (a[3] = 10 /\ a[2] = 2 /\ a[1] > 65) =>
                      /\ seats'[i].price = Lit5p6
                      /\ PyLt(seats'[i].price, PyInt(10))]_vars

\* a seat was just reserved at both discounts of base price 10: 5.6, which
\* is not the float 0.56 * 10
C6_Witness ==
    /\ last = [op |-> "reserve_seat", status |-> Ok]
    /\ \E i \in 1..Len(seats) :
          /\ seats[i].reserved
          /\ seats[i].price = Lit5p6
          /\ seats[i].price # FlatPriceOf(10)

\* C7: reserve_seat of an unreserved seat with age <= 65 on a day other than
\* 2 stores exactly base_price
C7_FullPrice ==
    [][last'.op = "reserve_seat" =>
        \A i \in 1..Len(seats) :
          ~seats[i].reserved =>
            \A a \in ReserveArgs :
              (/\ a[1] <= 65
               /\ a[2] # 2
               /\ reserve_seat(seats[i].number, seats[i].row, a[1], a[2], a[3]))
              => /\ last'.status = Ok
                 /\ seats'[i].reserved
                 /\ seats'[i].price = PyInt(a[3])]_vars

\* seats were reserved at the full base prices 10 and -3
C7_Witness ==
    /\ last = [op |-> "reserve_seat", status |-> Ok]
    /\ \E i, j \in 1..Len(seats) :
          /\ seats[i].reserved /\ seats[i].price = PyInt(10)
          /\ seats[j].reserved /\ seats[j].price = PyInt(-3)

\* C8: cancel_reservation of a reserved seat succeeds and sets the seat's
\* reserved flag to false and its price to 0
C8_CancelReserved ==
    [][last'.op = "cancel_reservation" =>
        \A i \in 1..Len(seats) :
          (seats[i].reserved /\ cancel_reservation(seats[i].number, seats[i].row))
          => /\ last'.status = Ok
             /\ ~seats'[i].reserved
             /\ seats'[i].price = PyInt(0)]_vars

\* a reservation was just cancelled while another seat stays reserved
C8_Witness ==
    /\ last = [op |-> "cancel_reservation", status |-> Ok]
    /\ \E i, j \in 1..Len(seats) :
          /\ ~seats[i].reserved /\ seats[i].price = PyInt(0)
          /\ seats[j].reserved

\* C9: cancel_reservation of a seat of the hall that is not reserved fails
\* with "The seat is not reserved."
C9_CancelUnreserved ==
    [][last'.op = "cancel_reservation" =>
        \A i \in 1..Len(seats) :
          (~seats[i].reserved /\ cancel_reservation(seats[i].number, seats[i].row))
          => last'.status = NotReserved]_vars

\* cancel_reservation was refused as the third call on a hall none of whose
\* seats is reserved
C9_Witness ==
    /\ last = [op |-> "cancel_reservation", status |-> NotReserved]
    /\ calls > 2
    /\ \A i \in 1..Len(seats) : ~seats[i].reserved /\ seats[i].price = PyInt(0)

\* C10: reserve_seat and cancel_reservation of a (number, row) no seat has
\* fail with "The seat does not exist."; search_seat of such a pair returns
\* None, and of a pair some seat has it returns that seat
C10_NotFound ==
    [][\A t \in Targets :
          /\ ~Present(seats, t[1], t[2]) =>
                /\ search_seat(seats, t[1], t[2]) = 0
                /\ search_seat_call(t[1], t[2]) => last'.status = "None"
                /\ cancel_reservation(t[1], t[2]) => last'.status = NotFound
                /\ \A a \in ReserveArgs :
                      reserve_seat(t[1], t[2], a[1], a[2], a[3]) =>
                          last'.status = NotFound
          /\ Present(seats, t[1], t[2]) =>
                /\ search_seat(seats, t[1], t[2]) \in 1..Len(seats)
                /\ seats[search_seat(seats, t[1], t[2])].number = t[1]
                /\ seats[search_seat(seats, t[1], t[2])].row = t[2]
                /\ search_seat_call(t[1], t[2]) => last'.status = "found"]_vars

\* reserve_seat was refused for a seat the hall does not have
C10_Witness ==
    /\ last = [op |-> "reserve_seat", status |-> NotFound]
    /\ Len(seats) > 1

\* the (number, row) pairs Seat accepts among those callers pass
SeatArgs ==
    {<<number, row>> \in NumberArgs \X RowArgs : SeatCheck(number, row) = Ok}

\* C11: add_seat of a seat whose (number, row) the hall already holds fails
\* with "The seat is already registered in the hall." and changes nothing,
\* also when the seat's number is not the last seat's number + 1
C11_DuplicateFirst ==
    [][last'.op = "add_seat" =>
        \A s \in SeatArgs :
          (Present(seats, s[1], s[2]) /\ add_seat(Seat(s[1], s[2]))) =>
            last'.status = DuplicateSeat /\ seats' = seats]_vars

\* add_seat refused a duplicate on a hall none of whose seats has the number
\* after the last seat's: the next-number check would have refused it too
C11_Witness ==
    /\ last = [op |-> "add_seat", status |-> DuplicateSeat]
    /\ \A i \in 1..Len(seats) : seats[i].number # seats[Len(seats)].number + 1

C13_NoNewRow ==
    [][/\ last'.op = "add_seat" =>
            \A s \in SeatArgs :
              (s[2] > seats[Len(seats)].row /\ add_seat(Seat(s[1], s[2]))) =>
                last'.status = RowOutOfRange /\ seats' = seats
       /\ get_rows(seats) = ctor.rows
       /\ get_rows(seats') = ctor.rows]_vars

\* add_seat refused a new row on a hall that has grown by a seat
C13_Witness ==
    /\ last = [op |-> "add_seat", status |-> RowOutOfRange]
    /\ Len(seats) > ctor.rows * ctor.seats_per_row
    /\ get_rows(seats) = ctor.rows

\* the halls of the examples: CinemaHall(5, 5) and CinemaHall(5, 10)
Hall5x5 == HallSeats(1, 5, 5)
Hall5x10 == HallSeats(1, 5, 10)

\* CinemaHall(5, 5) accepts Seat(6, 3) and then has 26 seats, and
\* CinemaHall(5, 10) accepts Seat(11, 3)
C14_Examples ==
    /\ AddSeatCheck(Hall5x5, Seat(6, 3)) = Ok
    /\ Len(Insert(Hall5x5, InsertPosition(Hall5x5, Seat(6, 3), 1), Seat(6, 3))) = 26
    /\ AddSeatCheck(Hall5x10, Seat(11, 3)) = Ok

C15_UnreservedPriceZero ==
    \A i \in 1..Len(seats) : ~seats[i].reserved => seats[i].price = PyInt(0)

\* a reservation was cancelled while another seat stays reserved at a price
\* that is not 0
C15_Witness ==
    /\ last = [op |-> "cancel_reservation", status |-> Ok]
    /\ \E i \in 1..Len(seats) : ~seats[i].reserved
    /\ \E i \in 1..Len(seats) :
          seats[i].reserved /\ ~PyEq(seats[i].price, PyInt(0))

\* C16: in every reachable state every seat's stored price is a non-negative
\* number, whatever age, day_of_week and base_price reserve_seat was called
\* with
C16_PriceNonNegative ==
    \A i \in 1..Len(seats) : ~PyLt(seats[i].price, PyInt(0))

\* the non-positive and positive values a constructor may be called with
SizeArgs == {-1, 0, 1, 2}

\* C17: Seat(number, row) with number <= 0 or row <= 0 and
\* CinemaHall(rows, seats_per_row) with rows <= 0 or seats_per_row <= 0 raise
\* the ValueError of the offending argument and no hall is built; every seat
\* of every reachable hall has number >= 1 and row >= 1
C17_InvalidArgument ==
    /\ \A number \in SizeArgs \cup NumberArgs, row \in SizeArgs \cup RowArgs :
          (number <= 0 \/ row <= 0) => SeatCheck(number, row) \in InvalidArgument
    /\ \A rows \in SizeArgs, seats_per_row \in SizeArgs :
          (rows <= 0 \/ seats_per_row <= 0) =>
              HallCheck(rows, seats_per_row) \in InvalidArgument
    /\ (ctor.rows <= 0 \/ ctor.seats_per_row <= 0) =>
          ~built /\ seats = <<>> /\ last.status \in InvalidArgument
    /\ last.op = "Seat" => last.status \in InvalidArgument /\ built
    /\ \A i \in 1..Len(seats) : seats[i].number >= 1 /\ seats[i].row >= 1

\* Seat refused a row that is not positive, on a hall that has grown by a seat
C17_Witness ==
    /\ last = [op |-> "Seat", status |-> BadSeatRow]
    /\ Len(seats) > ctor.rows * ctor.seats_per_row

\* the seat numbers a row holds
RowNumbers(ss, row) == {ss[i].number : i \in {j \in 1..Len(ss) : ss[j].row = row}}

\* C18: whenever add_seat succeeds, the new seat's number is one more than
\* the highest number its row held before the call, and the numbers of every
\* row form the range 1..k
C18_NextInRow ==
    [][(last'.op = "add_seat" /\ last'.status = Ok) =>
        /\ \A j \in 1..Len(seats') :
              ~Present(seats, seats'[j].number, seats'[j].row) =>
                seats'[j].number = MaxOf(RowNumbers(seats, seats'[j].row)) + 1
        /\ \A j \in 1..Len(seats') :
              RowNumbers(seats', seats'[j].row) =
                  1..Cardinality(RowNumbers(seats', seats'[j].row))]_vars

\* the index of the seat (number, row) in ss
IndexOf(ss, number, row) ==
    CHOOSE i \in 1..Len(ss) : ss[i].number = number /\ ss[i].row = row

\* what a step does to the reserved flag of seat i of the hall
C19_Step(i) ==
    LET number == seats[i].number
        row == seats[i].row
        j == IndexOf(seats', number, row)
    IN  /\ Present(seats', number, row)
        \* false -> true: only by a successful reserve_seat of this seat
        /\ (~seats[i].reserved /\ seats'[j].reserved) =>
              /\ last' = [op |-> "reserve_seat", status |-> Ok]
              /\ \E a \in ReserveArgs : reserve_seat(number, row, a[1], a[2], a[3])
        \* true -> false: only by a successful cancel_reservation of this seat
        /\ (seats[i].reserved /\ ~seats'[j].reserved) =>
              /\ last' = [op |-> "cancel_reservation", status |-> Ok]
              /\ cancel_reservation(number, row)
        \* a reserve_seat of this seat succeeds exactly if the seat is not
        \* reserved, cancelled before or not, and then the seat is reserved
        /\ last'.op = "reserve_seat" =>
              \A a \in ReserveArgs :
                reserve_seat(number, row, a[1], a[2], a[3]) =>
                  /\ last'.status = Ok <=> ~seats[i].reserved
                  /\ last'.status = Ok => seats'[j].reserved
        \* a cancel_reservation of this seat succeeds exactly if the seat is
        \* reserved, and then the seat is not reserved
        /\ (last'.op = "cancel_reservation" /\ cancel_reservation(number, row)) =>
              /\ last'.status = Ok <=> seats[i].reserved
              /\ last'.status = Ok => ~seats'[j].reserved

\* C19: the reserved flag of a seat goes from false to true only by a
\* successful reserve_seat of that seat and from true to false only by a
\* successful cancel_reservation of that seat; a reserve_seat succeeds only on
\* a seat that is not reserved and a cancel_reservation only on a reserved
\* one, so the successful calls on one seat alternate; a seat enters the hall
\* unreserved, so the first is a reserve_seat; and reserve_seat succeeds on
\* every seat that is not reserved, a cancelled one included
C19_Toggle ==
    [][/\ \A i \in 1..Len(seats) : C19_Step(i)
       /\ \A j \in 1..Len(seats') :
             ~Present(seats, seats'[j].number, seats'[j].row) => ~seats'[j].reserved]_vars

\* the only seat of a hall is reserved by the third call, a reserve_seat: the
\* state the calls reserve_seat, cancel_reservation, reserve_seat end in
C19_Witness ==
    /\ last = [op |-> "reserve_seat", status |-> Ok]
    /\ calls = 3
    /\ Len(seats) = 1
    /\ seats[1].reserved

\* seat i of the hall is the only seat the step may have changed, and only in
\* its reserved flag and price
OnlySeatChanged(i) ==
    /\ Len(seats') = Len(seats)
    /\ seats'[i].number = seats[i].number
    /\ seats'[i].row = seats[i].row
    /\ \A j \in 1..Len(seats) : j # i => seats'[j] = seats[j]

\* C20: a successful reserve_seat or cancel_reservation changes only the
\* reserved flag and price of the seat it was called for, and the sequence
\* keeps its seats and their order; a successful add_seat leaves every seat
\* the hall had with its reserved flag and price, in the same order;
\* show_seats, search_seat, get_rows and get_seats_per_row change nothing
C20_Frame ==
    [][/\ (last'.op = "reserve_seat" /\ last'.status = Ok) =>
            \A i \in 1..Len(seats) :
              (\E a \in ReserveArgs :
                  reserve_seat(seats[i].number, seats[i].row, a[1], a[2], a[3]))
                => OnlySeatChanged(i)
       /\ (last'.op = "cancel_reservation" /\ last'.status = Ok) =>
            \A i \in 1..Len(seats) :
              cancel_reservation(seats[i].number, seats[i].row) => OnlySeatChanged(i)
       /\ (last'.op = "add_seat" /\ last'.status = Ok) =>
            /\ \A i \in 1..Len(seats) :
                  /\ Present(seats', seats[i].number, seats[i].row)
                  /\ seats'[IndexOf(seats', seats[i].number, seats[i].row)] = seats[i]
            /\ \A i, j \in 1..Len(seats) :
                  i < j => IndexOf(seats', seats[i].number, seats[i].row)
                            < IndexOf(seats', seats[j].number, seats[j].row)
       /\ last'.op \in {"show_seats", "search_seat", "get_rows", "get_seats_per_row"} =>
            seats' = seats]_vars

\* a second seat was reserved and the seat reserved before it keeps its own,
\* different price
C20_Witness ==
    /\ last = [op |-> "reserve_seat", status |-> Ok]
    /\ \E i, j \in 1..Len(seats) :
          /\ seats[i].reserved
          /\ seats[j].reserved
          /\ PyLt(seats[i].price, seats[j].price)

====
